---- MODULE Spec2Model ----
(***************************************************************************)
(* A model of the RIVET console front end (src/console.cpp): one run of    *)
(* main() from the point where all input parameters are set, the three     *)
(* Computation callbacks, process_barcode_queries and the process exit     *)
(* paths.                                                                  *)
(*                                                                         *)
(* Numbers are integers: the query files of the model hold no decimal      *)
(* point or exponent, so every double is integral and is printed by        *)
(* operator<< as its decimal digits.  Text is a sequence of one-character  *)
(* strings.                                                                *)
(***************************************************************************)
EXTENDS Integers, Sequences, FiniteSets, TLC

(***************************************************************************)
(* Bounds of the model.                                                    *)
(***************************************************************************)
\* the longest query file, in lines
MaxLines == 3
\* the most files selected while the dialog is shown
MaxSelections == 2
\* the number of distinct precomputed artifacts a run may load
NumArtifacts == 2

(***************************************************************************)
(* Text helpers.                                                           *)
(***************************************************************************)
\* the characters line.find_first_not_of(" \t") passes over
Blank == {" ", "\t"}

\* the characters operator>> passes over before a number (std::isspace)
Space == {" ", "\t", "\n", "\r"}

Digits == <<"0", "1", "2", "3", "4", "5", "6", "7", "8", "9">>

IsDigit(c) == \E d \in 1..10 : Digits[d] = c

DigitVal(c) == (CHOOSE d \in 1..10 : Digits[d] = c) - 1

\* first index >= p of s whose character is not in set, Len(s)+1 when none
RECURSIVE FirstNotIn(_, _, _)
FirstNotIn(s, p, set) ==
    IF p > Len(s) THEN Len(s) + 1
    ELSE IF s[p] \in set THEN FirstNotIn(s, p + 1, set)
    ELSE p

\* first index >= p of s that holds no digit, Len(s)+1 when none
RECURSIVE DigitsEnd(_, _)
DigitsEnd(s, p) ==
    IF p > Len(s) THEN Len(s) + 1
    ELSE IF IsDigit(s[p]) THEN DigitsEnd(s, p + 1)
    ELSE p

\* the value of the digit string s[from..to], read left to right
RECURSIVE DigitsValue(_, _, _, _)
DigitsValue(s, from, to, acc) ==
    IF from > to THEN acc
    ELSE DigitsValue(s, from + 1, to, 10 * acc + DigitVal(s[from]))

\* the decimal digits of a natural number, as operator<< prints them
RECURSIVE FormatNat(_)
FormatNat(n) ==
    IF n < 10 THEN <<Digits[n + 1]>>
    ELSE FormatNat(n \div 10) \o <<Digits[(n % 10) + 1]>>

\* std::cout << x for an integral double x
FormatNum(x) == IF x < 0 THEN <<"-">> \o FormatNat(-x) ELSE FormatNat(x)

(***************************************************************************)
(* process_barcode_queries: reading one line of the query file.            *)
(***************************************************************************)
StripLeading_NothingErased(line) == line

\* line.erase(0, line.find_first_not_of(" \t"))
StripLeading(line) ==
    SubSeq(line, FirstNotIn(line, 1, Blank), Len(line))

\* if (line.empty() || line[0] == '#'), on the stripped line
IsSkipped(stripped) == stripped = <<>> \/ stripped[1] = "#"

\* iss >> x for a double x, reading s from index p: white space is passed
\* over, then an optional sign and decimal digits are read
ExtractDouble(s, p) ==
    LET q == FirstNotIn(s, p, Space)
        signed == q <= Len(s) /\ s[q] \in {"-", "+"}
        d0 == IF signed THEN q + 1 ELSE q
        d1 == DigitsEnd(s, d0)
        mag == DigitsValue(s, d0, d1 - 1, 0)
    IN  IF d1 = d0
        THEN [ok |-> FALSE, val |-> 0, next |-> q]
        ELSE [ok |-> TRUE,
              val |-> IF signed /\ s[q] = "-" THEN 0 - mag ELSE mag,
              next |-> d1]

\* if (iss >> angle >> offset): the second extraction is attempted only
\* when the first did not fail
ParseQuery(stripped) ==
    LET a == ExtractDouble(stripped, 1)
        o == ExtractDouble(stripped, a.next)
    IN  IF a.ok /\ o.ok
        THEN [ok |-> TRUE, angle |-> a.val, offset |-> o.val]
        ELSE [ok |-> FALSE, angle |-> 0, offset |-> 0]

AngleOutOfRange_LowerBoundDropped(angle) == angle > 90

\* if (angle < 0 || angle > 90)
AngleOutOfRange(angle) == angle < 0 \/ angle > 90

(***************************************************************************)
(* Barcodes.                                                               *)
(***************************************************************************)
\* a finite double
Fin(n) == [inf |-> FALSE, v |-> n]

\* rivet::numeric::INFTY
INFTY == [inf |-> TRUE, v |-> 0]

Bar(b, d, m) == [birth |-> b, death |-> d, multiplicity |-> m]

\* the barcodes an artifact of the model can answer with
BarcodeTable ==
    << <<>>,
       <<Bar(3, INFTY, 1)>>,
       <<Bar(3, INFTY, 1), Bar(3, Fin(12), 5)>>,
       <<Bar(0, Fin(7), 2), Bar(4, INFTY, 1), Bar(5, Fin(6), 10)>> >>

\* the barcode of one query line against an artifact
BarcodeOf(artifact, query) ==
    BarcodeTable[((artifact + query[1] + query[2]) % Len(BarcodeTable)) + 1]

\* query_barcodes(computation_result, queries): one barcode per query, in
\* the order of the queries
query_barcodes(artifact, queries) ==
    [i \in 1..Len(queries) |-> BarcodeOf(artifact, queries[i])]

\* if (bar.death == rivet::numeric::INFTY) "inf" else bar.death
PrintDeath(death) ==
    IF death = INFTY THEN <<"i", "n", "f">> ELSE FormatNum(death.v)

BarSeparator_AfterEveryBar(k, n) == <<",", " ">>

\* if (std::next(it) != barcode->end()) std::cout << ", ", at the k-th of
\* n bars
BarSeparator(k, n) == IF k + 1 <= n THEN <<",", " ">> ELSE <<>>

\* the inner loop of lines 243-256, from the k-th bar on
RECURSIVE PrintBars(_, _)
PrintBars(barcode, k) ==
    IF k > Len(barcode) THEN <<>>
    ELSE LET bar == barcode[k]
         IN  FormatNum(bar.birth) \o <<" ">>
             \o PrintDeath(bar.death)
             \o <<" ", "x">> \o FormatNat(bar.multiplicity)
             \o BarSeparator(k, Len(barcode))
             \o PrintBars(barcode, k + 1)

\* the text of the output line of query i (lines 238-257)
PrintQueryLine(queries, vec, i) ==
    FormatNum(queries[i][1]) \o <<" ">> \o FormatNum(queries[i][2])
    \o <<":", " ">> \o PrintBars(vec[i], 1)

(***************************************************************************)
(* The state of one run.                                                   *)
(***************************************************************************)
VARIABLES
    params,              \* InputParameters once all of them are set (line 426)
    barcodes,            \* bool barcodes (line 303)
    slices,              \* std::string slices (lines 328-331)
    content,             \* FileContent returned by DataReader::process
    pc,                  \* where the run is
    status,              \* how the process ended
    out,                 \* what was written to cout, clog and cerr, in order
    disk,                \* the files this run has written
    temp_files,          \* std::vector<std::string> temp_files (line 268)
    points_message,      \* std::shared_ptr<TemplatePointsMessage>
    arrangement_message, \* std::shared_ptr<ArrangementMessage>
    arrangement,         \* std::shared_ptr<Arrangement> (line 531)
    query_file,          \* the lines of the query file, once it is open
    query_opened,        \* whether std::ifstream query_file is open
    line_number,         \* int line_number (line 211)
    queries,             \* std::vector<std::pair<double, double>> queries
    barcodes_queried,    \* history: query_barcodes has been called
    open_failed,         \* history: an open for writing has failed
    compute_invoked,     \* history: Computation::compute has been called
    \* the data-select dialog (src/dataselectdialog.cpp)
    ui,                  \* the widgets of Ui::DataSelectDialog
    dialog_params,       \* InputParameters& params of the dialog
    data_selected,       \* bool data_selected
    dialog_pc,           \* where the dialog is
    selected,            \* history: the files selected since the dialog was shown
    edited,              \* history: a widget was edited after the last selection
    fresh                \* history: ui and params when the dialog was shown

vars == <<params, barcodes, slices, content, pc, status, out, disk,
          temp_files, points_message, arrangement_message, arrangement,
          query_file, query_opened, line_number, queries, barcodes_queried,
          open_failed,
          compute_invoked, ui, dialog_params, data_selected, dialog_pc,
          selected, edited, fresh>>

dialog_vars == <<ui, dialog_params, data_selected, dialog_pc, selected,
                 edited, fresh>>

\* what no step of a console run changes
main_vars == <<params, barcodes, slices, content, dialog_vars>>

query_vars == <<query_file, query_opened, line_number, queries,
                barcodes_queried>>

message_vars == <<points_message, arrangement_message, arrangement>>

\* one thing written to a stream
Ev(stream, kind, n, text) ==
    [stream |-> stream, kind |-> kind, n |-> n, text |-> text]

(***************************************************************************)
(* The inputs of a run.                                                    *)
(***************************************************************************)
\* the lines a query file of the model is made of
QueryLines ==
    { <<>>,
      <<"\t", " ">>,
      <<" ", "#", "9", "5", " ", "1">>,
      <<"5", " ", "1">>,
      <<"9", "0", " ", "-", "2">>,
      <<" ", "0", "7", " ", " ", "3">>,
      <<"9", "5", " ", "1">>,
      <<"-", "1", " ", "1">>,
      <<"5", " ", "x">> }

QueryFiles == UNION {[1..k -> QueryLines] : k \in 0..MaxLines}

Verbosities == {0, 1}

Formats == {"msgpack", "R0"}

\* the five rivet_console forms of USAGE that name a file
Usages == {"minpres", "betti", "bounds", "barcodes", "full"}

Flags == {"minpres", "betti", "binary", "bounds", "koszul"}

\* the flags a command line of form u can give
CliFlags(u) ==
    CASE u = "minpres" -> {s \in SUBSET Flags :
                              "minpres" \in s /\ s \subseteq {"minpres", "koszul"}}
      [] u = "betti" -> {s \in SUBSET Flags :
                              "betti" \in s /\ s \subseteq {"betti", "koszul"}}
      [] u = "bounds" -> {{"bounds"}}
      [] u = "barcodes" -> {{}}
      [] OTHER -> SUBSET {"binary", "koszul"}

\* params.outputFile (lines 294-297) against params.fileName = "in" (lines
\* 286-293): only <module_invariants_file> names an output file, and in the
\* forms without <input_file> it is the input file as well
OutputFiles(u) ==
    CASE u \in {"minpres", "betti"} -> {""}
      [] u \in {"bounds", "barcodes"} -> {"in"}
      [] OTHER -> {"in", "out"}

\* the option lines InputManager reads from a text input file; a module
\* invariants file holds none
FileFlags(type) == IF type = "DATA" THEN SUBSET Flags ELSE {{}}

\* lines 306-310: a flag is set when the file or the command line sets it
MakeParams(cli, file, outputFile, v, fmt) ==
    [fileName |-> "in",
     outputFile |-> outputFile,
     minpres |-> "minpres" \in cli \cup file,
     betti |-> "betti" \in cli \cup file,
     binary |-> "binary" \in cli \cup file,
     bounds |-> "bounds" \in cli \cup file,
     koszul |-> "koszul" \in cli \cup file,
     verbosity |-> v,
     outputFormat |-> fmt]

\* what the output file holds
FileState(state, points, arr) ==
    [state |-> state, points |-> points, arrangement |-> arr]

Untouched == FileState("untouched", "none", "none")

\* a console run shows no dialog
NoDialog ==
    /\ ui = <<>>
    /\ dialog_params = <<>>
    /\ data_selected = FALSE
    /\ dialog_pc = "none"
    /\ selected = <<>>
    /\ edited = FALSE
    /\ fresh = <<>>

Init ==
    /\ NoDialog
    /\ \E u \in Usages, type \in {"DATA", "PRECOMPUTED"} :
         /\ \E cli \in CliFlags(u), file \in FileFlags(type),
               o \in OutputFiles(u), v \in Verbosities, fmt \in Formats :
              /\ (fmt = "R0" => u = "full")
              /\ params = MakeParams(cli, file, o, v, fmt)
         /\ barcodes = (u = "barcodes")
         /\ slices \in (IF u = "barcodes" THEN {"", "queries"} ELSE {""})
         /\ content \in [type : {type},
                         artifact : IF type = "PRECOMPUTED"
                                    THEN 0..(NumArtifacts - 1) ELSE {0}]
    /\ pc = "main_dispatch"
    /\ status = "running"
    /\ out = <<>>
    /\ disk = [output |-> Untouched, temp |-> {}]
    /\ temp_files = <<>>
    /\ points_message = "null"
    /\ arrangement_message = "null"
    /\ arrangement = "null"
    /\ query_file = <<>>
    /\ query_opened = FALSE
    /\ line_number = 0
    /\ queries = <<>>
    /\ barcodes_queried = FALSE
    /\ open_failed = FALSE
    /\ compute_invoked = FALSE

(***************************************************************************)
(* Writing files.                                                          *)
(***************************************************************************)
\* Whether a file can be opened for writing is the file system's answer at
\* the time of the open: is_open, file.is_open() after the open of
\* file_name.

write_template_points_file_NoThrow(file_name, is_open) ==
    [thrown |-> FALSE,
     temp |-> IF is_open THEN disk.temp \cup {file_name} ELSE disk.temp]

\* write_template_points_file(temp_name, *points_message)
write_template_points_file(file_name, is_open) ==
    IF ~is_open
    THEN [thrown |-> TRUE, temp |-> disk.temp]
    ELSE [thrown |-> FALSE, temp |-> disk.temp \cup {file_name}]

\* write_msgpack_file(params.outputFile, params, message, arrangement)
write_msgpack_file(message, arr, is_open) ==
    IF ~is_open
    THEN [thrown |-> TRUE, output |-> disk.output]
    ELSE [thrown |-> FALSE, output |-> FileState("msgpack", message, arr)]

\* if (!params.outputFile.empty() && !(params.outputFile == params.fileName))
OutputFileNamed_EmptyCheckOnly ==
    params.outputFile # ""

OutputFileNamed ==
    params.outputFile # "" /\ ~(params.outputFile = params.fileName)

(***************************************************************************)
(* main, from "process the data" on.                                       *)
(***************************************************************************)
WrongInputKind_BoundsUnchecked ==
    IF barcodes \/ params.bounds
    THEN barcodes /\ content.type # "PRECOMPUTED"
    ELSE content.type # "DATA"

\* the two content.type tests of main
WrongInputKind ==
    IF barcodes \/ params.bounds
    THEN content.type # "PRECOMPUTED"
    ELSE content.type # "DATA"

\* input_error(...); return 1;
MainInputError ==
    /\ pc = "main_dispatch"
    /\ WrongInputKind
    /\ out' = Append(out, Ev("cerr", "INPUT ERROR", 0, <<>>))
    /\ status' = "exit1"
    /\ pc' = "exiting"
    /\ UNCHANGED <<main_vars, disk, temp_files, message_vars, query_vars,
                   open_failed, compute_invoked>>

\* if (barcodes) { if (!slices.empty()) process_barcode_queries(...) }
MainBarcodes ==
    /\ pc = "main_dispatch"
    /\ ~WrongInputKind
    /\ barcodes
    /\ pc' = IF slices # "" THEN "pbq_open" ELSE "main_write"
    /\ UNCHANGED <<main_vars, status, out, disk, temp_files, message_vars,
                   query_vars, open_failed, compute_invoked>>

\* else process_bounds(*content.result)
MainBounds ==
    /\ pc = "main_dispatch"
    /\ ~WrongInputKind
    /\ ~barcodes /\ params.bounds
    /\ out' = out \o <<Ev("cout", "low", content.artifact, <<>>),
                       Ev("cout", "high", content.artifact, <<>>)>>
    /\ pc' = "main_write"
    /\ UNCHANGED <<main_vars, status, disk, temp_files, message_vars,
                   query_vars, open_failed, compute_invoked>>

\* content.result = computation.compute(*content.input_data, koszul)
MainCompute ==
    /\ pc = "main_dispatch"
    /\ ~WrongInputKind
    /\ ~barcodes /\ ~params.bounds
    /\ compute_invoked' = TRUE
    /\ pc' = "compute_presentation"
    /\ UNCHANGED <<main_vars, status, out, disk, temp_files, message_vars,
                   query_vars, open_failed>>

(***************************************************************************)
(* process_barcode_queries.                                                *)
(***************************************************************************)
\* if (!query_file.is_open()) { std::clog << "Could not open ..."; return; }
QueryFileUnreadable ==
    /\ pc = "pbq_open"
    /\ out' = Append(out, Ev("clog", "Could not open", 0, <<>>))
    /\ pc' = "main_write"
    /\ UNCHANGED <<main_vars, status, disk, temp_files, message_vars,
                   query_vars, open_failed, compute_invoked>>

\* std::ifstream query_file(query_file_name), opened
QueryFileOpened ==
    /\ pc = "pbq_open"
    /\ query_file' \in QueryFiles
    /\ query_opened' = TRUE
    /\ line_number' = 0
    /\ queries' = <<>>
    /\ barcodes_queried' = FALSE
    /\ pc' = "pbq_getline"
    /\ UNCHANGED <<main_vars, status, out, disk, temp_files, message_vars,
                   open_failed, compute_invoked>>

AfterRejectedLine_Continue == "pbq_getline"

\* the return statements of lines 226 and 232: where the run goes on after
\* the diagnostic of a rejected line
AfterRejectedLine == "main_write"

\* one turn of while (std::getline(query_file, line))
ReadQueryLine ==
    /\ pc = "pbq_getline"
    /\ line_number < Len(query_file)
    /\ line_number' = line_number + 1
    /\ LET line == StripLeading(query_file[line_number + 1])
           q == ParseQuery(line)
       IN  IF IsSkipped(line)
           THEN /\ out' = Append(out, Ev("clog", "Skipped line",
                                         line_number + 1, <<>>))
                /\ pc' = "pbq_getline"
                /\ queries' = queries
           ELSE IF q.ok
           THEN IF AngleOutOfRange(q.angle)
                THEN /\ out' = Append(out, Ev("clog", "Angle on line",
                                              line_number + 1, <<>>))
                     /\ pc' = AfterRejectedLine
                     /\ queries' = queries
                ELSE /\ out' = out
                     /\ pc' = "pbq_getline"
                     /\ queries' = Append(queries, <<q.angle, q.offset>>)
           ELSE /\ out' = Append(out, Ev("clog", "Parse error on line",
                                         line_number + 1, <<>>))
                /\ pc' = AfterRejectedLine
                /\ queries' = queries
    /\ UNCHANGED <<main_vars, status, disk, temp_files, message_vars,
                   query_file, query_opened, barcodes_queried, open_failed,
                   compute_invoked>>

\* the lines written by the loop of lines 237-258
PrintBarcodes(vec) ==
    [i \in 1..Len(queries) |->
        Ev("cout", "barcode", i, PrintQueryLine(queries, vec, i))]

\* getline fails at the end of the file: query_barcodes, then the output
AnswerQueries ==
    /\ pc = "pbq_getline"
    /\ line_number = Len(query_file)
    /\ out' = out \o PrintBarcodes(query_barcodes(content.artifact, queries))
    /\ barcodes_queried' = TRUE
    /\ pc' = "main_write"
    /\ UNCHANGED <<main_vars, status, disk, temp_files, message_vars,
                   query_file, query_opened, line_number, queries,
                   open_failed, compute_invoked>>

(***************************************************************************)
(* Computation::compute and the three callbacks main connects to it.       *)
(***************************************************************************)
\* whether compute builds, and so emits, the minimal presentation
EmitsMinpres(koszul) == ~koszul

\* the koszul algorithm: Betti numbers without a presentation
ComputeKoszul ==
    /\ pc = "compute_presentation"
    /\ ~EmitsMinpres(params.koszul)
    /\ pc' = "compute_points"
    /\ UNCHANGED <<main_vars, status, out, disk, temp_files, message_vars,
                   query_vars, open_failed, compute_invoked>>

\* the handler of computation.minpres_ready
MinpresReady ==
    /\ pc = "compute_presentation"
    /\ EmitsMinpres(params.koszul)
    /\ IF params.minpres
       THEN /\ out' = out \o <<Ev("cout", "MINIMAL PRESENTATION:", 0, <<>>),
                               Ev("cout", "print_sparse", 0, <<>>)>>
            /\ status' = "exit0"
            /\ pc' = "exiting"
       ELSE /\ out' = out
            /\ status' = status
            /\ pc' = "compute_points"
    /\ UNCHANGED <<main_vars, disk, temp_files, message_vars, query_vars,
                   open_failed, compute_invoked>>

\* params.outputFile + ".rivet-tmp"
TempName == <<params.outputFile, ".rivet-tmp">>

\* the handler of computation.template_points_ready
TemplatePointsReady ==
    /\ pc = "compute_points"
    /\ points_message' = "points"
    /\ \E temp_opens \in BOOLEAN, output_opens \in BOOLEAN :
       LET tmp == write_template_points_file(TempName, temp_opens)
           thrown1 == params.binary /\ tmp.thrown
           temp1 == IF params.binary THEN tmp.temp ELSE disk.temp
           out1 == IF params.binary
                   THEN Append(out, Ev("cout", "XI:", 0, <<>>))
                   ELSE out
           out2 == IF params.verbosity >= 4 \/ params.betti \/ params.minpres
                   THEN Append(out1, Ev("cout", "write_grades", 0, <<>>))
                   ELSE out1
           out3 == out2 \o <<Ev("cout", "Dimensions > 0:", 0, <<>>),
                             Ev("cout", "Betti numbers:", 0, <<>>)>>
           w == write_msgpack_file("points", "empty", output_opens)
           thrown2 == OutputFileNamed /\ (~output_opens \/ w.thrown)
       IN  /\ temp_files' = IF params.binary
                            THEN Append(temp_files, TempName)
                            ELSE temp_files
           /\ open_failed' = (open_failed
                              \/ (params.binary /\ ~temp_opens)
                              \/ (~thrown1 /\ params.betti /\ OutputFileNamed
                                  /\ ~output_opens))
           /\ IF thrown1
              THEN /\ pc' = "throwing"
                   /\ out' = out
                   /\ disk' = disk
                   /\ status' = status
              ELSE IF ~params.betti
              THEN /\ pc' = "compute_arrangement"
                   /\ out' = out2
                   /\ disk' = [disk EXCEPT !.temp = temp1]
                   /\ status' = status
              ELSE IF thrown2
              THEN /\ pc' = "throwing"
                   /\ out' = out3
                   /\ disk' = [disk EXCEPT !.temp = temp1]
                   /\ status' = status
              ELSE /\ pc' = "exiting"
                   /\ out' = out3
                   /\ disk' = [output |-> IF OutputFileNamed
                                          THEN w.output ELSE disk.output,
                               temp |-> temp1]
                   /\ status' = "exit0"
    /\ UNCHANGED <<main_vars, arrangement_message, arrangement, query_vars,
                   compute_invoked>>

\* the handler of computation.arrangement_ready
ArrangementReady ==
    /\ pc = "compute_arrangement"
    /\ arrangement_message' = "arrangement"
    /\ out' = IF params.binary
              THEN Append(out, Ev("cout", "ARRANGEMENT:", 0, <<>>))
              ELSE IF params.verbosity > 0
              THEN Append(out, Ev("clog", "Wrote arrangement to", 0, <<>>))
              ELSE out
    /\ pc' = "compute_return"
    /\ UNCHANGED <<main_vars, status, disk, temp_files, points_message,
                   arrangement, query_vars, open_failed, compute_invoked>>

\* compute returns: arrangement = content.result->arrangement
ComputeReturn ==
    /\ pc = "compute_return"
    /\ arrangement' = "arrangement"
    /\ pc' = "main_write"
    /\ UNCHANGED <<main_vars, status, out, disk, temp_files, points_message,
                   arrangement_message, query_vars, open_failed,
                   compute_invoked>>

(***************************************************************************)
(* The end of main and of the process.                                     *)
(***************************************************************************)
\* what dereferencing a null message pointer in line 586 or 590 can do
NullDereference == {"crash", "garbage"}

\* "if an output file has been specified, then save the arrangement"
MainWrite ==
    /\ pc = "main_write"
    /\ \E ub \in NullDereference, output_opens \in BOOLEAN :
         IF ~OutputFileNamed
         THEN /\ pc' = "main_return"
              /\ UNCHANGED <<status, disk, arrangement, open_failed>>
         ELSE IF ~output_opens
         THEN /\ pc' = "throwing"
              /\ open_failed' = TRUE
              /\ UNCHANGED <<status, disk, arrangement>>
         ELSE /\ arrangement' = IF arrangement = "null" THEN "empty"
                                ELSE arrangement
              /\ open_failed' = open_failed
              /\ IF params.outputFormat \notin {"R0", "msgpack"}
                 THEN /\ pc' = "throwing"
                      /\ disk' = [disk EXCEPT
                                    !.output = FileState("truncated", "none", "none")]
                      /\ status' = status
                 ELSE IF points_message = "null" \/ arrangement_message = "null"
                 THEN IF ub = "crash"
                      THEN /\ pc' = "terminated"
                           /\ status' = "crash"
                           /\ disk' = [disk EXCEPT
                                    !.output = FileState("truncated", "none", "none")]
                      ELSE /\ pc' = "main_return"
                           /\ status' = status
                           /\ disk' = [disk EXCEPT
                                    !.output = FileState("garbage", "none", "none")]
                 ELSE /\ pc' = "main_return"
                      /\ status' = status
                      /\ disk' = [disk EXCEPT !.output =
                            IF params.outputFormat = "R0"
                            THEN FileState("R0", points_message, arrangement')
                            ELSE write_msgpack_file(points_message,
                                                    arrangement_message,
                                                    output_opens).output]
    /\ UNCHANGED <<main_vars, out, temp_files, points_message,
                   arrangement_message, query_vars, compute_invoked>>

\* return 0;
MainReturn ==
    /\ pc = "main_return"
    /\ status' = "exit0"
    /\ pc' = "exiting"
    /\ UNCHANGED <<main_vars, out, disk, temp_files, message_vars,
                   query_vars, open_failed, compute_invoked>>

\* the files clean_temp_files removes
RemovedAtExit == {temp_files[i] : i \in 1..Len(temp_files)}

\* exit(0) or the return from main: the function registered with
\* std::atexit runs
AtExit ==
    /\ pc = "exiting"
    /\ disk' = [disk EXCEPT !.temp = disk.temp \ RemovedAtExit]
    /\ pc' = "terminated"
    /\ UNCHANGED <<main_vars, status, out, temp_files, message_vars,
                   query_vars, open_failed, compute_invoked>>

\* an exception leaves main, which has no handler: std::terminate, and the
\* functions registered with std::atexit do not run
Terminate ==
    /\ pc = "throwing"
    /\ status' = "abort"
    /\ pc' = "terminated"
    /\ UNCHANGED <<main_vars, out, disk, temp_files, message_vars,
                   query_vars, open_failed, compute_invoked>>

Next ==
    \/ MainInputError
    \/ MainBarcodes
    \/ MainBounds
    \/ MainCompute
    \/ QueryFileUnreadable
    \/ QueryFileOpened
    \/ ReadQueryLine
    \/ AnswerQueries
    \/ ComputeKoszul
    \/ MinpresReady
    \/ TemplatePointsReady
    \/ ArrangementReady
    \/ ComputeReturn
    \/ MainWrite
    \/ MainReturn
    \/ AtExit
    \/ Terminate

Spec == Init /\ [][Next]_vars

(***************************************************************************)
(* Definitions the properties share.                                       *)
(***************************************************************************)
Has(kind) == \E i \in 1..Len(out) : out[i].kind = kind

HasAt(kind, n) == \E i \in 1..Len(out) : out[i].kind = kind /\ out[i].n = n

\* the events of one kind, in the order written
Written(kind) == SelectSeq(out, LAMBDA e : e.kind = kind)

\* the barcode output lines, in the order printed
BarcodeLines == Written("barcode")

\* process_barcode_queries is being executed
InQueries == pc \in {"pbq_open", "pbq_getline"}

\* process_barcode_queries has read the file and returned
QueriesReturned == query_opened /\ ~InQueries

\* a line that is blank
IsBlankLine(l) == \A k \in 1..Len(l) : l[k] \in {" ", "\t"}

\* a line whose first character, leading blanks aside, is '#'
BeginsWithHash(l) ==
    \E k \in 1..Len(l) :
        l[k] = "#" /\ \A j \in 1..(k - 1) : l[j] \in {" ", "\t"}

SkippedByRule(l) == IsBlankLine(l) \/ BeginsWithHash(l)

\* the angle and offset a line holds, when it holds a pair
PairOf(l) == ParseQuery(StripLeading(l))

\* the numbers of the lines of the query file that are not to be skipped
Indices == [i \in 1..Len(query_file) |-> i]

RemainingLines == SelectSeq(Indices, LAMBDA i : ~SkippedByRule(query_file[i]))

SkippedLines == SelectSeq(Indices, LAMBDA i : SkippedByRule(query_file[i]))

\* the lines to be answered that hold a pair with an angle out of [0, 90]
BadAngleLines ==
    {i \in 1..Len(query_file) :
        /\ ~SkippedByRule(query_file[i])
        /\ PairOf(query_file[i]).ok
        /\ (PairOf(query_file[i]).angle < 0 \/ PairOf(query_file[i]).angle > 90)}

\* the lines to be answered that hold no pair
UnparsableLines ==
    {i \in 1..Len(query_file) :
        ~SkippedByRule(query_file[i]) /\ ~PairOf(query_file[i]).ok}

FailingLines == BadAngleLines \cup UnparsableLines

\* one bar as '<birth> <death> x<multiplicity>'
RenderBar(b) ==
    FormatNum(b.birth) \o <<" ">>
    \o (IF b.death.inf THEN <<"i", "n", "f">> ELSE FormatNum(b.death.v))
    \o <<" ", "x">> \o FormatNat(b.multiplicity)

\* the bars of a barcode, ', ' between consecutive ones
RECURSIVE JoinBars(_)
JoinBars(bars) ==
    IF bars = <<>> THEN <<>>
    ELSE IF Len(bars) = 1 THEN RenderBar(bars[1])
    ELSE RenderBar(bars[1]) \o <<",", " ">> \o JoinBars(Tail(bars))

\* '<angle> <offset>: '
QueryPrefix(angle, offset) ==
    FormatNum(angle) \o <<" ">> \o FormatNum(offset) \o <<":", " ">>

(***************************************************************************)
(* C1: a line of the query file that is not skipped and holds an angle     *)
(* below 0 or above 90 is rejected: no barcode line is ever printed for it *)
(* (none is printed at all), the function returns with a validation        *)
(* diagnostic, and when no failing line precedes it the diagnostic is the  *)
(* angle-range one with the number of that line.                           *)
(***************************************************************************)
C1_BadAngleRejected ==
    (query_opened /\ BadAngleLines # {}) =>
        /\ ~Has("barcode")
        /\ QueriesReturned =>
             /\ Has("Angle on line") \/ Has("Parse error on line")
             /\ \A i \in BadAngleLines :
                    (\A j \in FailingLines : j >= i) => HasAt("Angle on line", i)

\* a file with a valid line, then a line of angle -1 or 95, has been read
C1_Witness ==
    /\ pc = "terminated"
    /\ queries # <<>>
    /\ \E i \in BadAngleLines : i > 1 /\ HasAt("Angle on line", i)

(***************************************************************************)
(* C2: for a query file whose lines, the blank ones and the ones beginning *)
(* with '#' (leading blanks aside) excepted, all hold a pair with an angle *)
(* in [0, 90]: exactly those excepted lines are skipped, and one output    *)
(* line is printed per remaining line, in file order, the i-th being the   *)
(* i-th query's '<angle> <offset>: ' followed by the barcode of that       *)
(* query.                                                                  *)
(***************************************************************************)
C2_OneLinePerQuery ==
    (QueriesReturned /\ FailingLines = {}) =>
        /\ [i \in 1..Len(Written("Skipped line")) |->
                Written("Skipped line")[i].n] = SkippedLines
        /\ Len(BarcodeLines) = Len(RemainingLines)
        /\ \A i \in 1..Len(RemainingLines) :
             LET q == PairOf(query_file[RemainingLines[i]])
                 prefix == QueryPrefix(q.angle, q.offset)
             IN  /\ i <= Len(BarcodeLines)
                 /\ SubSeq(BarcodeLines[i].text, 1, Len(prefix)) = prefix
                 /\ BarcodeLines[i].text =
                        prefix \o JoinBars(BarcodeOf(content.artifact,
                                                     <<q.angle, q.offset>>))

\* the file '<blank> #95 1', '5 1', '90 -2' has been answered: two lines,
\* '5 1: ...' and then '90 -2: ...'
C2_Witness ==
    /\ pc = "terminated"
    /\ query_file = << <<" ", "#", "9", "5", " ", "1">>,
                       <<"5", " ", "1">>,
                       <<"9", "0", " ", "-", "2">> >>
    /\ Len(BarcodeLines) = 2
    /\ SubSeq(BarcodeLines[1].text, 1, 5) = <<"5", " ", "1", ":", " ">>
    /\ SubSeq(BarcodeLines[2].text, 1, 7) = <<"9", "0", " ", "-", "2", ":", " ">>

(***************************************************************************)
(* C3: when the query file cannot be read, holds an unparsable line or     *)
(* holds an angle out of range, the run does not end with the success      *)
(* status 0.                                                               *)
(***************************************************************************)
QueriesFailed ==
    Has("Could not open") \/ Has("Parse error on line") \/ Has("Angle on line")

C3_FailureSurfaces ==
    (pc = "terminated" /\ QueriesFailed) => status # "exit0"

(***************************************************************************)
(* C4: once an open of the temp file or of the output file for writing     *)
(* has failed, the run does nothing but propagate the error: it never      *)
(* exits with a status, and ends by the uncaught error.                    *)
(***************************************************************************)
C4_OpenFailurePropagates ==
    open_failed =>
        /\ pc \in {"throwing", "terminated"}
        /\ status \in {"running", "abort"}
        /\ pc = "terminated" => status = "abort"

\* the Betti output file could not be opened, after the temp file was
\* written, and the run has ended
C4_Witness ==
    /\ pc = "terminated"
    /\ open_failed
    /\ params.betti /\ params.binary
    /\ Has("XI:")
    /\ status = "abort"

(***************************************************************************)
(* C5: with --barcodes or --bounds compute is never invoked, queries and   *)
(* bounds are answered from a precomputed artifact only, and any other     *)
(* input ends the run with status 1 before any query or bounds output;     *)
(* without them compute runs on a data file only, and a precomputed input  *)
(* ends the run with status 1.                                             *)
(***************************************************************************)
QueryOrBoundsOutput ==
    Has("low") \/ Has("high") \/ Has("barcode") \/ query_opened \/ InQueries

C5_OperationMatchesInput ==
    /\ (barcodes \/ params.bounds) => ~compute_invoked
    /\ QueryOrBoundsOutput => content.type = "PRECOMPUTED"
    /\ compute_invoked => content.type = "DATA"
    /\ ((barcodes \/ params.bounds) /\ content.type # "PRECOMPUTED") =>
          /\ pc \in {"main_dispatch", "exiting", "terminated"}
          /\ pc = "terminated" => status = "exit1"
    /\ (~(barcodes \/ params.bounds) /\ content.type = "PRECOMPUTED") =>
          /\ pc \in {"main_dispatch", "exiting", "terminated"}
          /\ pc = "terminated" => status = "exit1"

\* a --bounds run on a data file has ended
C5_Witness ==
    /\ pc = "terminated"
    /\ params.bounds
    /\ content.type = "DATA"
    /\ status = "exit1"

(***************************************************************************)
(* C6: a run on a data file with --minpres in effect, whatever the other   *)
(* options, prints the minimal presentation and ends with status 0, with   *)
(* no arrangement computed and no file written (stated of the runs in      *)
(* which no open for writing fails).                                       *)
(***************************************************************************)
C6_MinpresExits ==
    (pc = "terminated" /\ compute_invoked /\ params.minpres /\ ~open_failed) =>
        /\ status = "exit0"
        /\ Has("MINIMAL PRESENTATION:")
        /\ arrangement_message = "null"
        /\ temp_files = <<>>
        /\ disk.output = Untouched

(***************************************************************************)
(* C7: a run on a data file with --betti in effect that has not exited     *)
(* for --minpres.                                                          *)
(***************************************************************************)
\* such a run
BettiRun ==
    compute_invoked /\ params.betti /\ ~Has("MINIMAL PRESENTATION:")

\* dimensions were printed, and Betti numbers after them
DimsThenBetti ==
    \E i \in 1..Len(out), j \in 1..Len(out) :
        /\ i < j
        /\ out[i].kind = "Dimensions > 0:"
        /\ out[j].kind = "Betti numbers:"

\* arrangement_ready is not handled and the final write is not reached
NoArrangementNoFinalWrite ==
    /\ pc \notin {"compute_arrangement", "compute_return", "main_write",
                   "main_return"}
    /\ arrangement_message = "null"
    /\ arrangement = "null"

\* an output file other than the input file is named
OtherOutputNamed == params.outputFile \notin {"", params.fileName}

\* C7 as claimed: the run ends with status 0 in the template-points
\* handler, dimensions and then Betti numbers printed, arrangement_ready
\* never handled, the final write never reached, and a file saved only
\* when another output file is named, holding the template points and an
\* empty arrangement
C7_AsClaimed ==
    BettiRun =>
        /\ NoArrangementNoFinalWrite
        /\ pc = "terminated" =>
             /\ status = "exit0"
             /\ DimsThenBetti
             /\ disk.temp = {}
             /\ disk.output = IF OtherOutputNamed
                              THEN FileState("msgpack", "points", "empty")
                              ELSE Untouched

\* C7 as amended: the run ends in the template-points handler, with
\* status 0 as claimed or, when the temp file or the output file cannot be
\* opened for writing, by the error the handler raises; in both cases
\* arrangement_ready is never handled and the final write never reached,
\* and the output file is written only when another output file is named,
\* and then holds the template points and an empty arrangement
C7_BettiExitsInHandler ==
    BettiRun =>
        /\ NoArrangementNoFinalWrite
        /\ disk.output \in {Untouched, FileState("msgpack", "points", "empty")}
        /\ disk.output # Untouched => OtherOutputNamed
        /\ pc = "terminated" =>
             \/ /\ status = "exit0"
                /\ ~open_failed
                /\ DimsThenBetti
                /\ disk.temp = {}
                /\ disk.output = IF OtherOutputNamed
                                 THEN FileState("msgpack", "points", "empty")
                                 ELSE Untouched
             \/ /\ status = "abort"
                /\ open_failed
                /\ disk.output = Untouched

\* a --betti run that named its input file as its output file has ended
\* with status 0
C7_Witness ==
    /\ pc = "terminated"
    /\ BettiRun
    /\ status = "exit0"
    /\ params.outputFile = params.fileName
    /\ params.binary

(***************************************************************************)
(* C8: every printed barcode line is the query's '<angle> <offset>: '      *)
(* followed by its bars, each '<birth> <death> x<multiplicity>' with 'inf' *)
(* for the death exactly when the death is INFTY, ', ' between consecutive *)
(* bars and nothing after the last.                                        *)
(***************************************************************************)
C8_BarcodeLineFormat ==
    \A i \in 1..Len(BarcodeLines) :
        LET line == BarcodeLines[i]
            vec == query_barcodes(content.artifact, queries)
        IN  /\ line.n \in 1..Len(queries)
            /\ line.text = QueryPrefix(queries[line.n][1], queries[line.n][2])
                           \o JoinBars(vec[line.n])
            /\ vec[line.n] # <<>> =>
                 SubSeq(line.text, Len(line.text) - 1, Len(line.text))
                     # <<",", " ">>

\* an empty barcode, and one of two bars of which the first only is
\* unbounded, have been printed
C8_Witness ==
    /\ \E i \in 1..Len(BarcodeLines) :
          BarcodeLines[i].text = <<"9", "0", " ", "-", "2", ":", " ">>
    /\ \E i \in 1..Len(BarcodeLines) :
          BarcodeLines[i].text =
              <<"5", " ", "1", ":", " ">>
              \o <<"3", " ", "i", "n", "f", " ", "x", "1", ",", " ">>
              \o <<"3", " ", "1", "2", " ", "x", "5">>

(***************************************************************************)
(* C9: when the process has terminated, no temp file it created is left.   *)
(***************************************************************************)
C9_TempFilesRemoved ==
    pc = "terminated" => disk.temp = {}

(***************************************************************************)
(* C10: the notice that the arrangement has been written is emitted only   *)
(* after the arrangement has been written to the output file.              *)
(***************************************************************************)
C10_NoticeAfterWrite ==
    (Has("ARRANGEMENT:") \/ Has("Wrote arrangement to")) =>
        disk.output.arrangement = "arrangement"

(***************************************************************************)
(* C14: when a line of the query file that is not skipped holds no pair or *)
(* holds an angle out of [0, 90], query_barcodes is never called and no    *)
(* barcode line is printed, not even for the valid lines before it; a file *)
(* without such a line is answered whole.                                  *)
(***************************************************************************)
C14_AllOrNothing ==
    query_opened =>
        /\ FailingLines # {} => (~barcodes_queried /\ ~Has("barcode"))
        /\ Has("barcode") => barcodes_queried
        /\ (QueriesReturned /\ FailingLines = {}) =>
              (barcodes_queried /\ Len(BarcodeLines) = Len(queries))

\* the reading stopped at an unparsable line that follows two valid lines
C14_Witness ==
    /\ pc = "terminated"
    /\ Len(queries) = 2
    /\ Has("Parse error on line")
    /\ ~Has("barcode")

(***************************************************************************)
(* The data-select dialog (src/dataselectdialog.cpp).                      *)
(*                                                                         *)
(* A file is named by its index in DataFiles; 0 is the empty file name.    *)
(***************************************************************************)
\* the option lines of a file: a record of the parameters the file sets
DataFile(state, opts) == [state |-> state, opts |-> opts]

\* the files the user can select
DataFiles ==
    << DataFile("unreadable", [type |-> "points"]),
       DataFile("empty", [type |-> "points"]),
       DataFile("ok", [type |-> "points"]),
       DataFile("ok", [type |-> "points", x_bins |-> 5, y_bins |-> 7]),
       DataFile("ok", [type |-> "metric_fn", x_reverse |-> TRUE,
                       y_reverse |-> TRUE, bifil |-> "function",
                       hom_degree |-> 1]),
       DataFile("ok", [type |-> "firep", x_bins |-> 0, y_bins |-> 3,
                       hom_degree |-> 2]),
       DataFile("ok", [type |-> "bifiltration", x_label |-> "time",
                       y_label |-> "scale", x_reverse |-> TRUE]),
       DataFile("ok", [type |-> "RIVET_msgpack"]),
       DataFile("ok", [type |-> "points_fn", x_bins |-> 20, y_bins |-> 0,
                       hom_degree |-> 1, md_string |-> "3"]),
       DataFile("ok", [type |-> "metric", y_bins |-> 7, y_reverse |-> TRUE]) >>

FileNames == 1..Len(DataFiles)

\* InputManager::start(): the parameters the file specifies replace those
\* of params, the others stay
InputManager_start(p, opts) ==
    [f \in DOMAIN p |-> IF f \in DOMAIN opts THEN opts[f] ELSE p[f]]

\* InputParameters as the caller of the dialog passes them, fileName aside
DefaultParams ==
    [fileName |-> 0, shortName |-> 0, hom_degree |-> 0, x_bins |-> 0,
     y_bins |-> 0, x_label |-> "", y_label |-> "distance",
     md_string |-> "inf", max_dist |-> -1, x_reverse |-> FALSE,
     y_reverse |-> FALSE, type |-> "points", bifil |-> "degree"]

\* the widgets after ui->setupUi(this)
SetupUi ==
    [homDimValue |-> 0, homDimEnabled |-> TRUE, homDimSpecial |-> "",
     xbin |-> 0, ybin |-> 0, xAxisLabel |-> "", yAxisLabel |-> "",
     xRev |-> FALSE, yRev |-> FALSE,
     maxDistText |-> "", maxDistEnabled |-> TRUE,
     maxDistHelpTip |-> "", maxDistHelpEnabled |-> TRUE,
     dataTypeIndex |-> 0, dataTypeEnabled |-> TRUE,
     filterIndex |-> 0, filterEnabled |-> TRUE,
     parameterFrame |-> TRUE, computeButton |-> TRUE,
     fileLabel |-> [text |-> "", file |-> 0], fileTypeLabel |-> ""]

\* the items of dataTypeComboBox and of filterComboBox, by index
DataTypeItems ==
    <<"points", "points_fn", "metric", "metric_fn", "bifiltration", "firep",
      "RIVET_msgpack">>

FilterItems == <<"degree", "function">>

\* DataSelectDialog::invalid_file
invalid_file(u) ==
    [u EXCEPT !.fileLabel = [text |-> "Please select a file.", file |-> 0],
              !.parameterFrame = FALSE,
              !.computeButton = FALSE,
              !.fileTypeLabel = ""]

\* lines 217-260 of detect_file_type: the widgets that depend on the type
ShowFileType(u, type) ==
    CASE type = "points" ->
           [u EXCEPT !.dataTypeIndex = 0,
                     !.fileTypeLabel = "point-cloud data."]
      [] type = "points_fn" ->
           [u EXCEPT !.dataTypeIndex = 1,
                     !.fileTypeLabel = "point-cloud data with function values."]
      [] type = "metric" ->
           [u EXCEPT !.dataTypeIndex = 2,
                     !.fileTypeLabel = "metric data."]
      [] type = "metric_fn" ->
           [u EXCEPT !.dataTypeIndex = 3,
                     !.fileTypeLabel = "metric data with function values."]
      [] type = "bifiltration" ->
           [u EXCEPT !.dataTypeIndex = 4, !.dataTypeEnabled = FALSE,
                     !.fileTypeLabel = "bifiltration data.",
                     !.maxDistText = "N/A", !.maxDistEnabled = FALSE,
                     !.filterEnabled = FALSE]
      [] type = "firep" ->
           [u EXCEPT !.dataTypeIndex = 5, !.dataTypeEnabled = FALSE,
                     !.fileTypeLabel = "free implicit representation data.",
                     !.homDimSpecial = "N/A", !.homDimValue = 0,
                     !.homDimEnabled = FALSE,
                     !.maxDistText = "N/A", !.maxDistEnabled = FALSE,
                     !.filterEnabled = FALSE]
      [] type = "RIVET_msgpack" ->
           [u EXCEPT !.dataTypeIndex = 6, !.dataTypeEnabled = FALSE,
                     !.fileTypeLabel = "pre-computed RIVET data."]
      [] OTHER -> [u EXCEPT !.fileTypeLabel = ""]

\* lines 265-280 of detect_file_type: the filter, the two check boxes and
\* the two bin spin boxes
ShowFilterReverseBins(u, p) ==
    LET u1 == IF p.bifil = "degree" THEN [u EXCEPT !.filterIndex = 0]
              ELSE IF p.bifil = "function" THEN [u EXCEPT !.filterIndex = 1]
              ELSE u
        u2 == IF p.x_reverse THEN [u1 EXCEPT !.xRev = TRUE] ELSE u1
        u3 == IF p.y_reverse THEN [u2 EXCEPT !.yRev = TRUE] ELSE u2
        u4 == IF p.x_bins > 0 THEN [u3 EXCEPT !.xbin = p.x_bins] ELSE u3
    IN  IF p.y_bins > 0 THEN [u4 EXCEPT !.xbin = p.y_bins] ELSE u4

\* DataSelectDialog::detect_file_type, on the widgets u and the parameters
\* p, p.fileName naming the file
detect_file_type(u, p) ==
    LET u1 == [u EXCEPT !.homDimSpecial = "", !.homDimEnabled = TRUE,
                        !.homDimValue = 0]
        p1 == [p EXCEPT !.x_label = "", !.y_label = "distance",
                        !.x_reverse = FALSE, !.y_reverse = FALSE,
                        !.x_bins = 10, !.y_bins = 10,
                        !.type = "points", !.max_dist = -1,
                        !.md_string = "inf", !.hom_degree = 0]
        u2 == [u1 EXCEPT !.maxDistEnabled = TRUE, !.maxDistText = "",
                         !.maxDistHelpTip = "", !.maxDistHelpEnabled = FALSE,
                         !.dataTypeIndex = 0, !.dataTypeEnabled = TRUE,
                         !.filterIndex = 0, !.filterEnabled = TRUE,
                         !.xbin = 10, !.ybin = 10]
    IN  IF p.fileName \notin FileNames
           \/ DataFiles[p.fileName].state \in {"unreadable", "empty"}
        THEN [ui |-> invalid_file(u2), params |-> p1]
        ELSE
        LET p2 == InputManager_start(p1, DataFiles[p.fileName].opts)
            u3 == [u2 EXCEPT !.homDimValue = p2.hom_degree,
                             !.maxDistText = p2.md_string]
            u4 == ShowFileType(u3, p2.type)
            u5 == [u4 EXCEPT !.xAxisLabel = p2.x_label,
                             !.yAxisLabel = p2.y_label]
            u6 == ShowFilterReverseBins(u5, p2)
            u7 == [u6 EXCEPT !.fileLabel = [text |-> "Selected file: ",
                                            file |-> p2.fileName],
                             !.parameterFrame = (p2.type # "RIVET_msgpack")]
            u8 == IF u7.maxDistEnabled
                  THEN [u7 EXCEPT !.maxDistHelpTip = "Set distance to infinity",
                                  !.maxDistHelpEnabled = TRUE]
                  ELSE u7
        IN  [ui |-> [u8 EXCEPT !.computeButton = TRUE],
             params |-> [p2 EXCEPT !.shortName = p2.fileName]]

\* DataSelectDialog::DataSelectDialog, for params p
Constructed(p) ==
    IF p.fileName # 0
    THEN LET d == detect_file_type(SetupUi, p)
         IN  [ui |-> [d.ui EXCEPT !.homDimValue = d.params.hom_degree,
                                  !.xbin = d.params.x_bins,
                                  !.ybin = d.params.y_bins],
              params |-> d.params]
    ELSE [ui |-> [SetupUi EXCEPT !.homDimValue = 0, !.xbin = 10, !.ybin = 10],
          params |-> p]

\* the widgets after DataSelectDialog::showEvent
showEvent(u) ==
    [u EXCEPT !.xAxisLabel = "", !.yAxisLabel = "",
              !.xRev = FALSE, !.yRev = FALSE,
              !.maxDistEnabled = TRUE, !.maxDistText = "",
              !.maxDistHelpTip = "", !.maxDistHelpEnabled = FALSE,
              !.dataTypeIndex = 0, !.dataTypeEnabled = TRUE,
              !.xbin = 10, !.ybin = 10,
              !.homDimSpecial = "", !.homDimEnabled = TRUE,
              !.homDimValue = 0,
              !.parameterFrame = FALSE, !.computeButton = FALSE,
              !.filterEnabled = TRUE, !.filterIndex = 0]

\* the parameters after DataSelectDialog::on_computeButton_clicked
on_computeButton_clicked(u, p) ==
    LET type == DataTypeItems[u.dataTypeIndex + 1]
    IN  [p EXCEPT !.hom_degree = u.homDimValue,
                  !.x_bins = u.xbin,
                  !.y_bins = u.ybin,
                  !.x_label = u.xAxisLabel,
                  !.y_label = u.yAxisLabel,
                  !.md_string = u.maxDistText,
                  !.x_reverse = u.xRev,
                  !.y_reverse = u.yRev,
                  !.type = type,
                  !.bifil = IF type \notin {"bifiltration", "firep",
                                            "RIVET_msgpack"}
                            THEN FilterItems[u.filterIndex + 1]
                            ELSE p.bifil]

\* what no step of the dialog changes
console_vars == <<params, barcodes, slices, content, pc, status, out, disk,
                  temp_files, points_message, arrangement_message,
                  arrangement, query_file, query_opened, line_number,
                  queries, barcodes_queried, open_failed, compute_invoked>>

\* the dialog belongs to the viewer: no console run is under way
NoConsole ==
    /\ params = <<>>
    /\ barcodes = FALSE
    /\ slices = ""
    /\ content = <<>>
    /\ pc = "none"
    /\ status = "none"
    /\ out = <<>>
    /\ disk = [output |-> Untouched, temp |-> {}]
    /\ temp_files = <<>>
    /\ points_message = "null"
    /\ arrangement_message = "null"
    /\ arrangement = "null"
    /\ query_file = <<>>
    /\ query_opened = FALSE
    /\ line_number = 0
    /\ queries = <<>>
    /\ barcodes_queried = FALSE
    /\ open_failed = FALSE
    /\ compute_invoked = FALSE

\* the dialog after its constructor, for each file name the caller may pass
DialogInit ==
    /\ NoConsole
    /\ \E fileName \in {0} \cup FileNames :
         LET c == Constructed([DefaultParams EXCEPT !.fileName = fileName])
         IN  /\ ui = c.ui
             /\ dialog_params = c.params
    /\ data_selected = FALSE
    /\ dialog_pc = "constructed"
    /\ selected = <<>>
    /\ edited = FALSE
    /\ fresh = <<>>

\* the dialog is shown: showEvent
ShowEvent ==
    /\ dialog_pc = "constructed"
    /\ ui' = showEvent(ui)
    /\ fresh' = [ui |-> ui', params |-> dialog_params]
    /\ dialog_pc' = "shown"
    /\ UNCHANGED <<dialog_params, data_selected, selected, edited,
                   console_vars>>

\* on_openFileButton_clicked: the file dialog returns selected_file, 0 when
\* the user cancels it
OpenFileButtonClicked ==
    /\ dialog_pc = "shown"
    /\ Len(selected) < MaxSelections
    /\ \E selected_file \in {0} \cup FileNames :
         IF selected_file # 0
         THEN LET d == detect_file_type(ui, [dialog_params EXCEPT
                                               !.fileName = selected_file])
              IN  /\ ui' = d.ui
                  /\ dialog_params' = d.params
                  /\ selected' = Append(selected, selected_file)
                  /\ edited' = FALSE
         ELSE UNCHANGED <<ui, dialog_params, selected, edited>>
    /\ UNCHANGED <<data_selected, dialog_pc, fresh, console_vars>>

\* on_maxDistHelp_clicked, the button being enabled
MaxDistHelpClicked ==
    /\ dialog_pc = "shown"
    /\ ui.parameterFrame
    /\ ui.maxDistHelpEnabled
    /\ ui' = [ui EXCEPT !.maxDistText = "inf"]
    /\ edited' = TRUE
    /\ UNCHANGED <<dialog_params, data_selected, dialog_pc, selected, fresh,
                   console_vars>>

\* on_computeButton_clicked, the button being enabled; its close() finds
\* data_selected set
ComputeButtonClicked ==
    /\ dialog_pc = "shown"
    /\ ui.computeButton
    /\ dialog_params' = on_computeButton_clicked(ui, dialog_params)
    /\ data_selected' = TRUE
    /\ dialog_pc' = "closed"
    /\ UNCHANGED <<ui, selected, edited, fresh, console_vars>>

\* closeEvent when the user closes the dialog: no data selected, exit(0)
CloseEvent ==
    /\ dialog_pc = "shown"
    /\ ~data_selected
    /\ dialog_pc' = "exited"
    /\ UNCHANGED <<ui, dialog_params, data_selected, selected, edited, fresh,
                   console_vars>>

DialogNext ==
    \/ ShowEvent
    \/ OpenFileButtonClicked
    \/ MaxDistHelpClicked
    \/ ComputeButtonClicked
    \/ CloseEvent

DialogSpec == DialogInit /\ [][DialogNext]_vars

(***************************************************************************)
(* Properties of the dialog.                                               *)
(***************************************************************************)
\* the file selected last in this showing and the options it specifies
LastSelected == selected[Len(selected)]

LastOpts == DataFiles[LastSelected].opts

\* a readable, non-empty file was selected last and no widget edited since
Unedited ==
    /\ selected # <<>>
    /\ DataFiles[LastSelected].state = "ok"
    /\ ~edited

\* Claim C11: after a readable file is selected, the x-bins and y-bins spin
\* boxes show the x_bins and y_bins the file specifies, whenever those are
\* positive, so that Compute pressed without an edit leaves params.x_bins
\* and params.y_bins equal to the file's values.
C11_BinsFromFile ==
    Unedited =>
        /\ ("x_bins" \in DOMAIN LastOpts /\ LastOpts.x_bins > 0) =>
              /\ ui.xbin = LastOpts.x_bins
              /\ dialog_pc = "closed" => dialog_params.x_bins = LastOpts.x_bins
        /\ ("y_bins" \in DOMAIN LastOpts /\ LastOpts.y_bins > 0) =>
              /\ ui.ybin = LastOpts.y_bins
              /\ dialog_pc = "closed" => dialog_params.y_bins = LastOpts.y_bins

\* the widgets and parameters had the file selected last been the only
\* selection of this showing
OnlySelection ==
    detect_file_type(fresh.ui,
                     [fresh.params EXCEPT !.fileName = LastSelected])

\* Claim C12: selecting a file resets everything, the x-reverse and
\* y-reverse check boxes included, so that the widgets, and the params
\* Compute stores, are the same whether or not another file was selected
\* earlier in the same showing.
C12_SelectionResets ==
    Unedited =>
        /\ ui = OnlySelection.ui
        /\ dialog_pc = "closed" =>
              dialog_params = on_computeButton_clicked(OnlySelection.ui,
                                                       OnlySelection.params)

\* the dialog was constructed for a readable, non-empty file and has just
\* been shown
FirstShownWithFile ==
    /\ dialog_pc = "shown"
    /\ selected = <<>>
    /\ ~edited
    /\ dialog_params.fileName \in FileNames
    /\ DataFiles[dialog_params.fileName].state = "ok"

\* Claim C13: a dialog constructed with the name of a readable, non-empty
\* file presents, when first shown, that file's initial values (homology
\* degree, x-bins, y-bins) with Compute enabled.
C13_InitialFileShown ==
    FirstShownWithFile =>
        /\ ui.homDimValue = dialog_params.hom_degree
        /\ ui.xbin = dialog_params.x_bins
        /\ ui.ybin = dialog_params.y_bins
        /\ ui.computeButton

====
